---- MODULE Spec2Model ----
(***************************************************************************)
(* rsheet: a concurrent in-memory reactive cell store (src/src/lib.rs).   *)
(* One handler thread per connection shares one Mutex<Spreadsheet>        *)
(* holding the cell grid and the dependency graph.  A Set evaluates the   *)
(* expression, writes the cell, rebinds the dependency edges and then     *)
(* runs trigger_updates, which re-evaluates the dependents.               *)
(*                                                                         *)
(* The timestamp field of TimedCellValue is written on every insert and   *)
(* read nowhere in the program; it is left out of the state.              *)
(***************************************************************************)
EXTENDS Integers, Sequences, FiniteSets, TLC

(***************************************************************************)
(* Bounds of the model.                                                    *)
(***************************************************************************)
MaxCol == 1        \* cell identifiers have columns 0..MaxCol
MaxRow == 2        \* cell identifiers have rows 0..MaxRow
MaxCmds == 2       \* commands read per connection, concurrent specification
MaxSeqCmds == 5    \* commands read on the single connection of SpecSeq
MaxOwnCmds == 3
MaxCycleCmds == 3
MaxSharedCmds == 3
MaxChainCmds == 6  \* commands read on the single connection of SpecChain

(***************************************************************************)
(* Identifier codec: CellIdentifier {col, row} <-> "A1".                  *)
(***************************************************************************)
Letters == <<"A", "B", "C", "D", "E", "F", "G", "H">>

column_number_to_name(col) == Letters[col + 1]

CellIds == [col : 0..MaxCol, row : 0..MaxRow]

\* util.rs: format!("{}{}", col_name, row + 1)
cell_id_to_string(cell_id) ==
    column_number_to_name(cell_id.col) \o ToString(cell_id.row + 1)

CellNames == {cell_id_to_string(id) : id \in CellIds}

\* "<text>".parse::<CellIdentifier>(): the identifier whose name is the text,
\* or a failure (ok = FALSE) when the text is no cell name.
NoId == [col |-> 0, row |-> 0]

IdOfName == [s \in CellNames |-> CHOOSE id \in CellIds : cell_id_to_string(id) = s]

ParseCellIdentifier(s) ==
    IF s \in CellNames THEN [ok |-> TRUE, id |-> IdOfName[s]]
    ELSE [ok |-> FALSE, id |-> NoId]

\* var_name.split('_'): the parts of a token.  A token built from two parts
\* is split back into them; a token with no underscore is its own single
\* part.  The parts are the cell names and "x", which is no cell name.
Parts == CellNames \cup {"x"}

RangeToken(a, b) == a \o "_" \o b

TokenParts == [tok \in {RangeToken(p[1], p[2]) : p \in Parts \X Parts} |->
                  CHOOSE p \in Parts \X Parts : RangeToken(p[1], p[2]) = tok]

SplitUnderscore(tok) ==
    IF tok \in DOMAIN TokenParts THEN TokenParts[tok] ELSE <<tok>>

(***************************************************************************)
(* Cell values (rsheet_lib::cell_value::CellValue).                        *)
(***************************************************************************)
IntVal(i) == [tag |-> "Int", i |-> i, msg |-> ""]
NoneVal == [tag |-> "None", i |-> 0, msg |-> ""]
ErrorVal(m) == [tag |-> "Error", i |-> 0, msg |-> m]

(***************************************************************************)
(* Expressions.  The program keeps the expression as text and hands it to *)
(* the external evaluator; the model keeps its abstract form:             *)
(*   lit   k          ref   x            plus  x + k                       *)
(*   add   x + y      sum   sum(x)                                         *)
(*   fail  an expression the evaluator turns into an error value (1/0)     *)
(*   none  Option::None (a cell stored without expression)                 *)
(***************************************************************************)
Lit(k) == [op |-> "lit", x |-> "", y |-> "", k |-> k]
Ref(x) == [op |-> "ref", x |-> x, y |-> "", k |-> 0]
Plus(x, k) == [op |-> "plus", x |-> x, y |-> "", k |-> k]
Add(x, y) == [op |-> "add", x |-> x, y |-> y, k |-> 0]
Sum(x) == [op |-> "sum", x |-> x, y |-> "", k |-> 0]
Fail == [op |-> "fail", x |-> "", y |-> "", k |-> 0]
NoExpr == [op |-> "none", x |-> "", y |-> "", k |-> 0]

\* CellExpr::find_variable_names: the variable tokens of the expression, each
\* once, in order of appearance.
find_variable_names(e) ==
    CASE e.op \in {"ref", "plus", "sum"} -> <<e.x>>
      [] e.op = "add" -> IF e.x = e.y THEN <<e.x>> ELSE <<e.x, e.y>>
      [] OTHER -> <<>>

SeqToSet(s) == {s[i] : i \in 1..Len(s)}

VarSet(e) == SeqToSet(find_variable_names(e))

(***************************************************************************)
(* Arguments of an evaluation (rsheet_lib::cell_expr::CellArgument).      *)
(***************************************************************************)
ArgValue(v) == [kind |-> "Value", val |-> v, vec |-> <<>>, mat |-> <<>>]
ArgVector(vs) == [kind |-> "Vector", val |-> NoneVal, vec |-> vs, mat |-> <<>>]
ArgMatrix(m) == [kind |-> "Matrix", val |-> NoneVal, vec |-> <<>>, mat |-> m]

RECURSIVE Flatten(_)
Flatten(m) == IF m = <<>> THEN <<>> ELSE Head(m) \o Flatten(Tail(m))

ArgElems(a) ==
    CASE a.kind = "Value" -> <<a.val>>
      [] a.kind = "Vector" -> a.vec
      [] OTHER -> Flatten(a.mat)

RECURSIVE SumVals(_)
SumVals(vs) ==
    IF vs = <<>> THEN 0
    ELSE (IF Head(vs).tag = "Int" THEN Head(vs).i ELSE 0) + SumVals(Tail(vs))

EvalOk(v) == [ok |-> TRUE, value |-> v]
EvalErr == [ok |-> FALSE, value |-> NoneVal]

IsInt(a) == a.kind = "Value" /\ a.val.tag = "Int"

\* CellExpr::evaluate(&context): Err when a variable of the expression is
\* missing from the context or an argument carries an error value; otherwise
\* Ok(value), where the value is an error value when the expression itself
\* cannot be computed.
evaluate(e, context) ==
    IF \E v \in VarSet(e) : v \notin DOMAIN context THEN EvalErr
    ELSE IF \E v \in VarSet(e) :
                \E i \in 1..Len(ArgElems(context[v])) :
                    ArgElems(context[v])[i].tag = "Error" THEN EvalErr
    ELSE CASE e.op = "lit" -> EvalOk(IntVal(e.k))
           [] e.op = "ref" ->
                IF context[e.x].kind = "Value"
                THEN EvalOk(context[e.x].val)
                ELSE EvalOk(ErrorVal("type"))
           [] e.op = "plus" ->
                IF IsInt(context[e.x])
                THEN EvalOk(IntVal(context[e.x].val.i + e.k))
                ELSE EvalOk(ErrorVal("type"))
           [] e.op = "add" ->
                IF IsInt(context[e.x]) /\ IsInt(context[e.y])
                THEN EvalOk(IntVal(context[e.x].val.i + context[e.y].val.i))
                ELSE EvalOk(ErrorVal("type"))
           [] e.op = "sum" -> EvalOk(IntVal(SumVals(ArgElems(context[e.x]))))
           [] OTHER -> EvalOk(ErrorVal("runtime"))

(***************************************************************************)
(* The cell grid and the variable resolver.                                *)
(***************************************************************************)
TimedCellValue(v, e) == [value |-> v, expression |-> e]

CellValueOf(cs, name) ==
    IF name \in DOMAIN cs THEN cs[name].value ELSE NoneVal

\* A variant of HashMap::insert that writes back a map holding only the new
\* entry: every other entry is lost.
InsertAlone(map, key, val) == [k \in {key} |-> val]

\* HashMap::insert
Insert(map, key, val) ==
    [k \in DOMAIN map \cup {key} |-> IF k = key THEN val ELSE map[k]]

\* parse_range: None unless the token has exactly two parts that both parse
\* as cell identifiers; otherwise the names of the cells with
\* start.col <= col <= end.col and start.row <= row <= end.row, column by
\* column (an empty list when end lies before start).
RECURSIVE RowsOf(_, _, _)
RowsOf(col, row, endRow) ==
    IF row > endRow THEN <<>>
    ELSE <<cell_id_to_string([col |-> col, row |-> row])>>
         \o RowsOf(col, row + 1, endRow)

RECURSIVE ColsOf(_, _, _, _)
ColsOf(col, endCol, startRow, endRow) ==
    IF col > endCol THEN <<>>
    ELSE RowsOf(col, startRow, endRow) \o ColsOf(col + 1, endCol, startRow, endRow)

NoRange == [some |-> FALSE, cells |-> <<>>]

RangeBetween(start, end) ==
    IF ~start.ok \/ ~end.ok THEN NoRange
    ELSE [some |-> TRUE,
          cells |-> ColsOf(start.id.col, end.id.col, start.id.row, end.id.row)]

RangeOfParts(parts) ==
    IF Len(parts) # 2 THEN NoRange
    ELSE RangeBetween(ParseCellIdentifier(parts[1]), ParseCellIdentifier(parts[2]))

parse_range(var_name) == RangeOfParts(SplitUnderscore(var_name))

SameRow(s, e) == IF s.ok /\ e.ok THEN s.id.row = e.id.row ELSE FALSE

SameCol(s, e) == IF s.ok /\ e.ok THEN s.id.col = e.id.col ELSE FALSE

is_same_row(start, end) ==
    SameRow(ParseCellIdentifier(start), ParseCellIdentifier(end))

is_same_col(start, end) ==
    SameCol(ParseCellIdentifier(start), ParseCellIdentifier(end))

\* build_matrix: one row of values per row of the rectangle spanned by the
\* first and the last name of the range, each row from the first column to
\* the last.
RECURSIVE MatrixRow(_, _, _, _)
MatrixRow(cs, row, col, endCol) ==
    IF col > endCol THEN <<>>
    ELSE <<CellValueOf(cs, cell_id_to_string([col |-> col, row |-> row]))>>
         \o MatrixRow(cs, row, col + 1, endCol)

RECURSIVE MatrixRows(_, _, _, _, _)
MatrixRows(cs, row, endRow, startCol, endCol) ==
    IF row > endRow THEN <<>>
    ELSE <<MatrixRow(cs, row, startCol, endCol)>>
         \o MatrixRows(cs, row + 1, endRow, startCol, endCol)

MatrixBetween(start_id, end_id, cs) ==
    MatrixRows(cs, start_id.row, end_id.row, start_id.col, end_id.col)

build_matrix(range, cs) ==
    MatrixBetween(ParseCellIdentifier(range[1]).id,
                  ParseCellIdentifier(range[Len(range)]).id, cs)

\* resolve_variable: [some, panic, arg].  panic is the index-out-of-bounds
\* panic of range[0] on an empty range.
Resolved(a) == [some |-> TRUE, panic |-> FALSE, arg |-> a]
Unresolved == [some |-> FALSE, panic |-> FALSE, arg |-> ArgValue(NoneVal)]
ResolvePanic == [some |-> FALSE, panic |-> TRUE, arg |-> ArgValue(NoneVal)]

\* lines 275-283: the token names a stored cell.
ResolveCell(value) ==
    CASE value.tag = "Int" -> Resolved(ArgValue(value))
      [] value.tag = "None" -> Resolved(ArgValue(IntVal(0)))
      [] OTHER -> Unresolved

\* lines 285-302: the token is resolved as a range.
ResolveRange(range, cs) ==
    IF range = <<>> THEN ResolvePanic
    ELSE IF \/ is_same_row(range[1], range[Len(range)])
            \/ is_same_col(range[1], range[Len(range)])
         THEN Resolved(ArgVector(
                  [i \in 1..Len(range) |-> CellValueOf(cs, range[i])]))
         ELSE Resolved(ArgMatrix(build_matrix(range, cs)))

ResolveParsed(r, cs) ==
    IF ~r.some THEN Unresolved ELSE ResolveRange(r.cells, cs)

resolve_variable(var_name, cs) ==
    IF var_name \in DOMAIN cs
    THEN ResolveCell(cs[var_name].value)
    ELSE ResolveParsed(parse_range(var_name), cs)

\* handle_context: the resolved variables of the expression; panics when a
\* resolution panics.
ContextOf(res) ==
    [panic |-> \E v \in DOMAIN res : res[v].panic,
     context |-> [v \in {w \in DOMAIN res : res[w].some} |-> res[v].arg]]

handle_context(cell_expr, cs) ==
    ContextOf([v \in VarSet(cell_expr) |-> resolve_variable(v, cs)])

\* handle_context followed by evaluate, as both call sites do:
\* [panic, ok, value].
EvalResult(r) == [panic |-> FALSE, ok |-> r.ok, value |-> r.value]

EvalContext(e, hc) ==
    IF hc.panic THEN [panic |-> TRUE, ok |-> FALSE, value |-> NoneVal]
    ELSE EvalResult(evaluate(e, hc.context))

EvalIn(e, cs) == EvalContext(e, handle_context(e, cs))

(***************************************************************************)
(* The dependency graph.                                                   *)
(***************************************************************************)
RemoveAll(deps, cell_id) == SelectSeq(deps, LAMBDA dep : dep # cell_id)

\* A variant of AddDependent that records no edge.
AddDependentNowhere(deps, names, cell_id) == deps

RECURSIVE AddDependent(_, _, _)
AddDependent(deps, names, cell_id) ==
    IF names = <<>> THEN deps
    ELSE AddDependent(
             Insert(deps, Head(names),
                    Append(IF Head(names) \in DOMAIN deps
                           THEN deps[Head(names)] ELSE <<>>, cell_id)),
             Tail(names), cell_id)

\* A variant of update_dependencies without the retain() pass: the cell stays
\* in the buckets of the tokens it mentioned before.
update_dependencies_keeping(deps, cell_id, cell_expr) ==
    AddDependent(deps, find_variable_names(cell_expr), cell_id)

\* A variant of update_dependencies with the edges reversed: the variables
\* of the expression are appended to the bucket of the cell.
update_dependencies_reversed(deps, cell_id, cell_expr) ==
    Insert([t \in DOMAIN deps |-> RemoveAll(deps[t], cell_id)], cell_id,
           (IF cell_id \in DOMAIN deps THEN RemoveAll(deps[cell_id], cell_id)
            ELSE <<>>) \o find_variable_names(cell_expr))

\* update_dependencies: remove cell_id from every bucket, then append it to
\* the bucket of every variable of the expression.
update_dependencies(deps, cell_id, cell_expr) ==
    AddDependent([t \in DOMAIN deps |-> RemoveAll(deps[t], cell_id)],
                 find_variable_names(cell_expr), cell_id)

\* dependencies.get(&cell).cloned()
Bucket(deps, cell) == IF cell \in DOMAIN deps THEN deps[cell] ELSE <<>>

(***************************************************************************)
(* Commands and replies.                                                   *)
(***************************************************************************)
GetCmd(id) == [kind |-> "get", id |-> id, expr |-> NoExpr]
SetCmd(id, e) == [kind |-> "set", id |-> id, expr |-> e]
BadCmd == [kind |-> "bad", id |-> NoId, expr |-> NoExpr]

Id(col, row) == [col |-> col, row |-> row]

ReplyValue(name, v) == [kind |-> "Value", name |-> name, value |-> v]
ReplyError(m) == [kind |-> "Error", name |-> m, value |-> NoneVal]
NoReply == [kind |-> "None", name |-> "", value |-> NoneVal]

(***************************************************************************)
(* State.                                                                  *)
(***************************************************************************)
Conns == {1, 2}
NoHolder == 0

VARIABLES
    cells,          \* Spreadsheet.cells: name -> TimedCellValue
    dependencies,   \* Spreadsheet.dependencies: token -> list of dependents
    holder,         \* the handler inside spreadsheet.lock(), or NoHolder
    poisoned,       \* a handler panicked while holding the mutex
    server,         \* start_server: accepting, joining, returned, panicked
    handles,        \* thread_handles: the handlers spawned and not yet joined
    pc,             \* where each handler is
    cmd,            \* the command a handler is handling
    cell_value,     \* handle_command's cell_value (the root's evaluated value)
    queue,          \* trigger_updates' queue
    visited,        \* trigger_updates' visited set
    cur,            \* the cell popped by the current iteration
    pending,        \* the dependents of cur still to re-evaluate
    reply,          \* the reply handle_command returned
    nread,          \* messages read on the connection
    nreplied,       \* replies handle_command returned on the connection
    last,           \* history: the connection's previous command, its reply
                    \* and the value its cell held when the reply was written
    evals,          \* history: how often the current trigger_updates run
                    \* re-evaluated each cell
    former          \* history: <<c, t>> when an earlier expression of cell c
                    \* mentioned token t and its stored expression does not

shared == <<cells, dependencies>>
mutex == <<holder, poisoned>>
main == <<server, handles>>
locals == <<cmd, cell_value, queue, visited, cur, pending>>
io == <<reply, nread, nreplied, last>>
history == <<evals, former>>
vars == <<cells, dependencies, holder, poisoned, server, handles, pc, cmd,
          cell_value, queue, visited, cur, pending, reply, nread, nreplied,
          last, evals, former>>

NoLast == [cmd |-> BadCmd, reply |-> NoReply, stored |-> NoneVal]
NoEvals == [c \in CellNames |-> 0]

Init ==
    /\ cells = <<>>
    /\ dependencies = <<>>
    /\ holder = NoHolder
    /\ poisoned = FALSE
    /\ server = "accepting"
    /\ handles = <<>>
    /\ pc = [h \in Conns |-> "unspawned"]
    /\ cmd = [h \in Conns |-> BadCmd]
    /\ cell_value = [h \in Conns |-> NoneVal]
    /\ queue = [h \in Conns |-> <<>>]
    /\ visited = [h \in Conns |-> {}]
    /\ cur = [h \in Conns |-> ""]
    /\ pending = [h \in Conns |-> <<>>]
    /\ reply = [h \in Conns |-> NoReply]
    /\ nread = [h \in Conns |-> 0]
    /\ nreplied = [h \in Conns |-> 0]
    /\ last = [h \in Conns |-> NoLast]
    /\ evals = [h \in Conns |-> NoEvals]
    /\ former = {}

(***************************************************************************)
(* start_server.                                                           *)
(***************************************************************************)
\* Connection::NewConnection: spawn handle_client and push its handle.
Accept(h) ==
    /\ server = "accepting"
    /\ pc[h] = "unspawned"
    /\ \A g \in Conns : g < h => pc[g] # "unspawned"
    /\ pc' = [pc EXCEPT ![h] = "read"]
    /\ handles' = Append(handles, h)
    /\ UNCHANGED <<shared, mutex, server, locals, io, history>>

\* Connection::NoMoreConnections: go on to wait_for_threads.
NoMoreConnections ==
    /\ server = "accepting"
    /\ server' = "joining"
    /\ UNCHANGED <<shared, mutex, handles, pc, locals, io, history>>

\* wait_for_threads: join the handles in order; join() of a handler that
\* panicked is an Err and expect() panics.
WaitForThreads ==
    /\ server = "joining"
    /\ IF handles = <<>>
       THEN server' = "returned" /\ UNCHANGED handles
       ELSE /\ pc[Head(handles)] \in {"closed", "panicked"}
            /\ IF pc[Head(handles)] = "panicked"
               THEN server' = "panicked" /\ UNCHANGED handles
               ELSE handles' = Tail(handles) /\ UNCHANGED server
    /\ UNCHANGED <<shared, mutex, pc, locals, io, history>>

(***************************************************************************)
(* handle_client and handle_command.                                       *)
(***************************************************************************)
\* A variant of handle_command that locks the spreadsheet before parsing the
\* command string: lock().unwrap() panics when the mutex is poisoned.
ReadMessageLocking(h, menu, budget) ==
    /\ pc[h] = "read"
    /\ nread[h] < budget
    /\ \E c \in menu :
        /\ cmd' = [cmd EXCEPT ![h] = c]
        /\ IF c.kind = "bad"
           THEN /\ holder = NoHolder
                /\ IF poisoned
                   THEN /\ pc' = [pc EXCEPT ![h] = "panicked"]
                        /\ UNCHANGED <<reply, nreplied>>
                   ELSE /\ reply' = [reply EXCEPT ![h] = ReplyError("parse")]
                        /\ nreplied' = [nreplied EXCEPT ![h] = @ + 1]
                        /\ pc' = [pc EXCEPT ![h] = "write"]
           ELSE /\ pc' = [pc EXCEPT ![h] = c.kind]
                /\ UNCHANGED <<reply, nreplied>>
    /\ nread' = [nread EXCEPT ![h] = @ + 1]
    /\ UNCHANGED <<shared, mutex, main, cell_value, queue, visited, cur,
                   pending, last, history>>

\* reader.read_message() returns a message; a string that is no command is
\* answered at once with Reply::Error.
ReadMessage(h, menu, budget) ==
    /\ pc[h] = "read"
    /\ nread[h] < budget
    /\ \E c \in menu :
        /\ cmd' = [cmd EXCEPT ![h] = c]
        /\ IF c.kind = "bad"
           THEN /\ reply' = [reply EXCEPT ![h] = ReplyError("parse")]
                /\ nreplied' = [nreplied EXCEPT ![h] = @ + 1]
                /\ pc' = [pc EXCEPT ![h] = "write"]
           ELSE /\ pc' = [pc EXCEPT ![h] = c.kind]
                /\ UNCHANGED <<reply, nreplied>>
    /\ nread' = [nread EXCEPT ![h] = @ + 1]
    /\ UNCHANGED <<shared, mutex, main, cell_value, queue, visited, cur,
                   pending, last, history>>

\* reader.read_message() returns ConnectionClosed or Err: the loop ends.
ReadClosed(h) ==
    /\ pc[h] = "read"
    /\ pc' = [pc EXCEPT ![h] = "closed"]
    /\ UNCHANGED <<shared, mutex, main, locals, io, history>>

\* A variant of Command::Get that reads the cells without taking the mutex.
GetUnlocked(h) ==
    /\ pc[h] = "get"
    /\ reply' = [reply EXCEPT ![h] =
            ReplyValue(cell_id_to_string(cmd[h].id),
                       CellValueOf(cells, cell_id_to_string(cmd[h].id)))]
    /\ nreplied' = [nreplied EXCEPT ![h] = @ + 1]
    /\ pc' = [pc EXCEPT ![h] = "write"]
    /\ UNCHANGED <<shared, mutex, main, locals, nread, last, history>>

\* A variant of Command::Get that reads through entry().or_default(): a cell
\* that is absent gets an entry with no value.
GetCreating(h) ==
    /\ pc[h] = "get"
    /\ holder = NoHolder
    /\ IF poisoned
       THEN /\ pc' = [pc EXCEPT ![h] = "panicked"]
            /\ UNCHANGED <<cells, reply, nreplied>>
       ELSE /\ cells' = IF cell_id_to_string(cmd[h].id) \in DOMAIN cells
                        THEN cells
                        ELSE Insert(cells, cell_id_to_string(cmd[h].id),
                                    TimedCellValue(NoneVal, NoExpr))
            /\ reply' = [reply EXCEPT ![h] =
                    ReplyValue(cell_id_to_string(cmd[h].id),
                               CellValueOf(cells, cell_id_to_string(cmd[h].id)))]
            /\ nreplied' = [nreplied EXCEPT ![h] = @ + 1]
            /\ pc' = [pc EXCEPT ![h] = "write"]
    /\ UNCHANGED <<dependencies, mutex, main, locals, nread, last, history>>

\* Command::Get: lock, read the value, unlock.  lock().unwrap() panics when
\* the mutex is poisoned.
Get(h) ==
    /\ pc[h] = "get"
    /\ holder = NoHolder
    /\ IF poisoned
       THEN /\ pc' = [pc EXCEPT ![h] = "panicked"]
            /\ UNCHANGED <<reply, nreplied>>
       ELSE /\ reply' = [reply EXCEPT ![h] =
                    ReplyValue(cell_id_to_string(cmd[h].id),
                               CellValueOf(cells, cell_id_to_string(cmd[h].id)))]
            /\ nreplied' = [nreplied EXCEPT ![h] = @ + 1]
            /\ pc' = [pc EXCEPT ![h] = "write"]
    /\ UNCHANGED <<shared, mutex, main, locals, nread, last, history>>

\* The tokens the stored expression of a cell mentions.
Mentioned(cs, c) ==
    IF c \in DOMAIN cs THEN VarSet(cs[c].expression) ELSE {}

FormerAfter(name, e) ==
    {p \in former \cup {<<name, t>> : t \in Mentioned(cells, name)} :
        p[1] # name \/ p[2] \notin VarSet(e)}

\* A variant of lines 128-145 that stores an error value in the target cell
\* when the root evaluation fails.
SetOutcomeStoring(h, name, r) ==
    IF poisoned
    THEN /\ pc' = [pc EXCEPT ![h] = "panicked"]
         /\ UNCHANGED <<cells, mutex, cell_value, reply, nreplied, former>>
    ELSE IF r.panic
    THEN /\ pc' = [pc EXCEPT ![h] = "panicked"]
         /\ poisoned' = TRUE
         /\ UNCHANGED <<cells, holder, cell_value, reply, nreplied, former>>
    ELSE IF ~r.ok
    THEN /\ cells' = Insert(cells, name,
                        TimedCellValue(ErrorVal("evaluation failed"),
                                       cmd[h].expr))
         /\ reply' = [reply EXCEPT ![h] =
                         ReplyError("could not evaluate expression")]
         /\ nreplied' = [nreplied EXCEPT ![h] = @ + 1]
         /\ pc' = [pc EXCEPT ![h] = "write"]
         /\ UNCHANGED <<mutex, cell_value, former>>
    ELSE /\ cells' = Insert(cells, name, TimedCellValue(r.value, cmd[h].expr))
         /\ cell_value' = [cell_value EXCEPT ![h] = r.value]
         /\ holder' = h
         /\ pc' = [pc EXCEPT ![h] = "rebind"]
         /\ former' = FormerAfter(name, cmd[h].expr)
         /\ UNCHANGED <<poisoned, reply, nreplied>>

\* Command::Set, lines 128-145: lock, build the context, evaluate, and on
\* success insert the cell.  A panic in handle_context poisons the mutex.
SetOutcome(h, name, r) ==
    IF poisoned
    THEN /\ pc' = [pc EXCEPT ![h] = "panicked"]
         /\ UNCHANGED <<cells, mutex, cell_value, reply, nreplied, former>>
    ELSE IF r.panic
    THEN /\ pc' = [pc EXCEPT ![h] = "panicked"]
         /\ poisoned' = TRUE
         /\ UNCHANGED <<cells, holder, cell_value, reply, nreplied, former>>
    ELSE IF ~r.ok
    THEN /\ reply' = [reply EXCEPT ![h] =
                         ReplyError("could not evaluate expression")]
         /\ nreplied' = [nreplied EXCEPT ![h] = @ + 1]
         /\ pc' = [pc EXCEPT ![h] = "write"]
         /\ UNCHANGED <<cells, mutex, cell_value, former>>
    ELSE /\ cells' = Insert(cells, name, TimedCellValue(r.value, cmd[h].expr))
         /\ cell_value' = [cell_value EXCEPT ![h] = r.value]
         /\ holder' = h
         /\ pc' = [pc EXCEPT ![h] = "rebind"]
         /\ former' = FormerAfter(name, cmd[h].expr)
         /\ UNCHANGED <<poisoned, reply, nreplied>>

SetEval(h) ==
    /\ pc[h] = "set"
    /\ holder = NoHolder
    /\ SetOutcome(h, cell_id_to_string(cmd[h].id), EvalIn(cmd[h].expr, cells))
    /\ UNCHANGED <<dependencies, main, cmd, queue, visited, cur, pending,
                   nread, last, evals>>

\* Command::Set, lines 147-150: update_dependencies, unlock, and enter
\* trigger_updates with the queue holding the root.
SetRebind(h) ==
    /\ pc[h] = "rebind"
    /\ holder = h
    /\ dependencies' = update_dependencies(dependencies,
                           cell_id_to_string(cmd[h].id), cmd[h].expr)
    /\ holder' = NoHolder
    /\ queue' = [queue EXCEPT ![h] = <<cell_id_to_string(cmd[h].id)>>]
    /\ visited' = [visited EXCEPT ![h] = {}]
    /\ pc' = [pc EXCEPT ![h] = "trigger"]
    /\ UNCHANGED <<cells, poisoned, main, cmd, cell_value, cur, pending, io,
                   history>>

(***************************************************************************)
(* trigger_updates.                                                        *)
(***************************************************************************)
\* A variant of the loop head without the visited test of lines 205-207:
\* every popped cell is processed.
TriggerPopRevisiting(h) ==
    /\ pc[h] = "trigger"
    /\ IF queue[h] = <<>>
       THEN /\ reply' = [reply EXCEPT ![h] =
                    ReplyValue(cell_id_to_string(cmd[h].id), cell_value[h])]
            /\ nreplied' = [nreplied EXCEPT ![h] = @ + 1]
            /\ pc' = [pc EXCEPT ![h] = "write"]
            /\ UNCHANGED <<queue, visited, cur>>
       ELSE /\ queue' = [queue EXCEPT ![h] = SubSeq(@, 1, Len(@) - 1)]
            /\ visited' = [visited EXCEPT ![h] =
                              @ \cup {queue[h][Len(queue[h])]}]
            /\ cur' = [cur EXCEPT ![h] = queue[h][Len(queue[h])]]
            /\ pc' = [pc EXCEPT ![h] = "lock"]
            /\ UNCHANGED <<reply, nreplied>>
    /\ UNCHANGED <<shared, mutex, main, cmd, cell_value, pending, nread, last,
                   history>>

\* while let Some(cell) = queue.pop(): the queue is a Vec popped at its end.
\* An empty queue ends trigger_updates and handle_command returns
\* Reply::Value(cell_id_str, cell_value).
TriggerPop(h) ==
    /\ pc[h] = "trigger"
    /\ IF queue[h] = <<>>
       THEN /\ reply' = [reply EXCEPT ![h] =
                    ReplyValue(cell_id_to_string(cmd[h].id), cell_value[h])]
            /\ nreplied' = [nreplied EXCEPT ![h] = @ + 1]
            /\ pc' = [pc EXCEPT ![h] = "write"]
            /\ UNCHANGED <<queue, visited, cur>>
       ELSE /\ queue' = [queue EXCEPT ![h] = SubSeq(@, 1, Len(@) - 1)]
            /\ IF queue[h][Len(queue[h])] \in visited[h]
               THEN UNCHANGED <<visited, cur, pc>>
               ELSE /\ visited' = [visited EXCEPT ![h] =
                                      @ \cup {queue[h][Len(queue[h])]}]
                    /\ cur' = [cur EXCEPT ![h] = queue[h][Len(queue[h])]]
                    /\ pc' = [pc EXCEPT ![h] = "lock"]
            /\ UNCHANGED <<reply, nreplied>>
    /\ UNCHANGED <<shared, mutex, main, cmd, cell_value, pending, nread, last,
                   history>>

\* shared_spreadsheet.lock().unwrap() and dependencies.get(&cell).cloned().
\* With no bucket for the cell the guard is dropped at the end of the
\* iteration.
TriggerLock(h) ==
    /\ pc[h] = "lock"
    /\ holder = NoHolder
    /\ IF poisoned
       THEN /\ pc' = [pc EXCEPT ![h] = "panicked"]
            /\ UNCHANGED <<holder, pending>>
       ELSE IF Bucket(dependencies, cur[h]) = <<>>
       THEN /\ pc' = [pc EXCEPT ![h] = "trigger"]
            /\ UNCHANGED <<holder, pending>>
       ELSE /\ holder' = h
            /\ pending' = [pending EXCEPT ![h] = Bucket(dependencies, cur[h])]
            /\ pc' = [pc EXCEPT ![h] = "update"]
    /\ UNCHANGED <<shared, poisoned, main, cmd, cell_value, queue, visited,
                   cur, io, history>>

HasExpression(cs, name) ==
    name \in DOMAIN cs /\ cs[name].expression # NoExpr

\* A variant of the loop body that evaluates the dependent and pushes it but
\* does not insert the new value.
ReevaluatedUnstored(cs, dependent, r) ==
    IF r.panic THEN [panic |-> TRUE, cells |-> cs, push |-> FALSE]
    ELSE [panic |-> FALSE, cells |-> cs, push |-> r.ok]

\* The body of "for dependent in dependents" for one dependent: [panic,
\* cells, push].  A dependent that is no stored cell, or has no expression,
\* is skipped; a successful evaluation is stored and the dependent is
\* pushed; a failed one is stored as an error value and not pushed.
Reevaluated(cs, dependent, r) ==
    IF r.panic THEN [panic |-> TRUE, cells |-> cs, push |-> FALSE]
    ELSE IF r.ok
    THEN [panic |-> FALSE,
          cells |-> Insert(cs, dependent,
                           TimedCellValue(r.value, cs[dependent].expression)),
          push |-> TRUE]
    ELSE [panic |-> FALSE,
          cells |-> Insert(cs, dependent,
                           TimedCellValue(ErrorVal("evaluation failed"),
                                          cs[dependent].expression)),
          push |-> FALSE]

UpdateDependent(cs, dependent) ==
    IF ~HasExpression(cs, dependent)
    THEN [panic |-> FALSE, cells |-> cs, push |-> FALSE]
    ELSE Reevaluated(cs, dependent, EvalIn(cs[dependent].expression, cs))

\* One dependent of the bucket is re-evaluated under the lock; after the
\* last one the guard is dropped.
DepOutcome(h, u) ==
    IF u.panic
    THEN /\ pc' = [pc EXCEPT ![h] = "panicked"]
         /\ poisoned' = TRUE
         /\ holder' = NoHolder
         /\ UNCHANGED <<cells, queue, pending, evals>>
    ELSE /\ cells' = u.cells
         /\ evals' = [evals EXCEPT ![h][Head(pending[h])] =
                         IF HasExpression(cells, Head(pending[h]))
                         THEN @ + 1 ELSE @]
         /\ queue' = [queue EXCEPT ![h] =
                         IF u.push THEN Append(@, Head(pending[h])) ELSE @]
         /\ pending' = [pending EXCEPT ![h] = Tail(@)]
         /\ IF Tail(pending[h]) = <<>>
            THEN holder' = NoHolder /\ pc' = [pc EXCEPT ![h] = "trigger"]
            ELSE UNCHANGED <<holder, pc>>
         /\ UNCHANGED poisoned

TriggerDep(h) ==
    /\ pc[h] = "update"
    /\ holder = h
    /\ DepOutcome(h, UpdateDependent(cells, Head(pending[h])))
    /\ UNCHANGED <<dependencies, main, cmd, cell_value, visited, cur, io,
                   former>>

\* writer.write_message(reply) is Ok: the loop goes on to the next message.
WriteMessage(h) ==
    /\ pc[h] = "write"
    /\ last' = [last EXCEPT ![h] =
                    [cmd |-> cmd[h], reply |-> reply[h],
                     stored |-> CellValueOf(cells, cell_id_to_string(cmd[h].id))]]
    /\ evals' = [evals EXCEPT ![h] = NoEvals]
    /\ pc' = [pc EXCEPT ![h] = "read"]
    /\ UNCHANGED <<shared, mutex, main, locals, reply, nread, nreplied, former>>

\* writer.write_message(reply) is ConnectionClosed or Err: the loop ends.
WriteClosed(h) ==
    /\ pc[h] = "write"
    /\ evals' = [evals EXCEPT ![h] = NoEvals]
    /\ pc' = [pc EXCEPT ![h] = "closed"]
    /\ UNCHANGED <<shared, mutex, main, locals, io, former>>

\* The steps of one connection.  A panic of wait_for_threads unwinds
\* start_server and main: the process exits and no thread runs any further.
Handler(h, menu, budget) ==
    /\ server # "panicked"
    /\ \/ Accept(h)
       \/ ReadMessage(h, menu, budget)
       \/ ReadClosed(h)
       \/ Get(h)
       \/ SetEval(h)
       \/ SetRebind(h)
       \/ TriggerPop(h)
       \/ TriggerLock(h)
       \/ TriggerDep(h)
       \/ WriteMessage(h)
       \/ WriteClosed(h)

(***************************************************************************)
(* Spec: two connections, each reading up to MaxCmds commands.             *)
(***************************************************************************)
Cmds ==
    { GetCmd(Id(0, 0)), BadCmd,
      SetCmd(Id(0, 0), Lit(1)),
      SetCmd(Id(1, 0), Plus("A1", 1)),
      SetCmd(Id(1, 0), Lit(2)),
      SetCmd(Id(0, 1), Sum("B1_A1")) }

Next ==
    \/ \E h \in Conns : Handler(h, Cmds, MaxCmds)
    \/ NoMoreConnections
    \/ WaitForThreads

Spec == Init /\ [][Next]_vars

(***************************************************************************)
(* SpecSeq: one connection reading up to MaxSeqCmds commands.              *)
(***************************************************************************)
SeqCmds ==
    { GetCmd(Id(0, 0)), GetCmd(Id(1, 0)), BadCmd,
      SetCmd(Id(0, 0), Lit(1)),
      SetCmd(Id(0, 0), Lit(5)),
      SetCmd(Id(0, 0), Fail),
      SetCmd(Id(0, 0), Plus("A1", 1)),
      SetCmd(Id(0, 0), Plus("B1", 1)),
      SetCmd(Id(1, 0), Plus("A1", 1)),
      SetCmd(Id(1, 0), Lit(3)),
      SetCmd(Id(1, 0), Ref("A1")),
      SetCmd(Id(0, 1), Plus("B1", 1)),
      SetCmd(Id(0, 1), Plus("A1", 1)),
      SetCmd(Id(0, 1), Sum("A1_B1")),
      SetCmd(Id(0, 1), Sum("B1_A1")) }

NextSeq ==
    \/ Handler(1, SeqCmds, MaxSeqCmds)
    \/ NoMoreConnections
    \/ WaitForThreads

SpecSeq == Init /\ [][NextSeq]_vars

(***************************************************************************)
(* SpecChain: one connection building dependency chains over five cells;   *)
(* no expression of its menu is cyclic, fails or uses a range.             *)
(***************************************************************************)
ChainCmds ==
    { SetCmd(Id(0, 0), Lit(1)),
      SetCmd(Id(0, 0), Lit(5)),
      SetCmd(Id(1, 0), Plus("A1", 1)),
      SetCmd(Id(0, 1), Plus("B1", 1)),
      SetCmd(Id(1, 1), Add("A1", "A2")),
      SetCmd(Id(0, 2), Plus("B2", 1)),
      GetCmd(Id(0, 2)), BadCmd }

NextChain ==
    \/ Handler(1, ChainCmds, MaxChainCmds)
    \/ NoMoreConnections
    \/ WaitForThreads

SpecChain == Init /\ [][NextChain]_vars

(***************************************************************************)
(* SpecDisjoint: two connections, each reading up to MaxOwnCmds commands   *)
(* on the cells of its own column, with expressions that mention only      *)
(* cells of that column.                                                   *)
(***************************************************************************)
Own(h) == {cell_id_to_string(id) : id \in {i \in CellIds : i.col = h - 1}}

OwnCmds(h) ==
    IF h = 1
    THEN { SetCmd(Id(0, 0), Lit(1)),
           SetCmd(Id(0, 0), Lit(5)),
           SetCmd(Id(0, 1), Plus("A1", 1)),
           GetCmd(Id(0, 1)) }
    ELSE { SetCmd(Id(1, 0), Lit(2)),
           SetCmd(Id(1, 1), Plus("B1", 1)),
           GetCmd(Id(1, 1)) }

NextDisjoint ==
    \/ \E h \in Conns : Handler(h, OwnCmds(h), MaxOwnCmds)
    \/ NoMoreConnections
    \/ WaitForThreads

SpecDisjoint == Init /\ [][NextDisjoint]_vars

(***************************************************************************)
(* SpecCycle: one connection reading up to MaxCycleCmds commands that      *)
(* build circular dependencies (A1 from B1 and B1 from A1, A1 from         *)
(* itself).  A handler thread that can take a step of trigger_updates      *)
(* takes it: the thread keeps running.                                     *)
(***************************************************************************)
CycleCmds ==
    { SetCmd(Id(0, 0), Lit(1)),
      SetCmd(Id(0, 0), Plus("B1", 1)),
      SetCmd(Id(1, 0), Plus("A1", 1)),
      SetCmd(Id(0, 0), Plus("A1", 1)),
      GetCmd(Id(0, 0)) }

NextCycle ==
    \/ Handler(1, CycleCmds, MaxCycleCmds)
    \/ NoMoreConnections
    \/ WaitForThreads

Propagate(h) == TriggerPop(h) \/ TriggerLock(h) \/ TriggerDep(h)

SpecCycle == Init /\ [][NextCycle]_vars /\ WF_vars(Propagate(1))

(***************************************************************************)
(* SpecShared: two connections, each reading up to MaxSharedCmds commands; *)
(* connection 1 sets A1 and the cell A2 = A1 + B1, connection 2 sets B1.   *)
(***************************************************************************)
SharedCmds(h) ==
    IF h = 1
    THEN { SetCmd(Id(0, 0), Lit(1)),
           SetCmd(Id(0, 0), Lit(5)),
           SetCmd(Id(0, 1), Add("A1", "B1")) }
    ELSE { SetCmd(Id(1, 0), Lit(2)),
           SetCmd(Id(1, 0), Lit(3)),
           GetCmd(Id(0, 1)) }

NextShared ==
    \/ \E h \in Conns : Handler(h, SharedCmds(h), MaxSharedCmds)
    \/ NoMoreConnections
    \/ WaitForThreads

SpecShared == Init /\ [][NextShared]_vars

(***************************************************************************)
(* Dependency between stored expressions.                                  *)
(***************************************************************************)
\* The cells whose stored expression mentions one of the names of S.
DirectDependents(cs, S) == {d \in DOMAIN cs : Mentioned(cs, d) \cap S # {}}

RECURSIVE Closure(_, _)
Closure(cs, S) ==
    IF DirectDependents(cs, S) \subseteq S THEN S
    ELSE Closure(cs, S \cup DirectDependents(cs, S))

\* The cells that depend on root through a chain of mentions.
Downstream(cs, root) == Closure(cs, DirectDependents(cs, {root}))

Acyclic(cs) == \A c \in DOMAIN cs : c \notin Downstream(cs, c)

\* What the stored expression of c evaluates to against the store: the value,
\* or an error value when the evaluation fails.
ValueOfResult(r) == IF r.ok THEN r.value ELSE ErrorVal("evaluation failed")

ExpectedValue(cs, c) == ValueOfResult(EvalIn(cs[c].expression, cs))

SameValue(v, w) == v.tag = w.tag /\ v.i = w.i

UpToDate(cs, c) == SameValue(cs[c].value, ExpectedValue(cs, c))

SetReplied(h) ==
    pc[h] = "write" /\ cmd[h].kind = "set" /\ reply[h].kind = "Value"

(***************************************************************************)
(* C1.  On a single connection with an acyclic dependency graph, once the  *)
(* reply to a successful Set on R is produced, every cell that depends     *)
(* transitively on R holds the value its stored expression evaluates to    *)
(* against the store.                                                      *)
(***************************************************************************)
C1_PropagationClosure ==
    (SetReplied(1) /\ Acyclic(cells)) =>
        \A c \in Downstream(cells, cell_id_to_string(cmd[1].id)) :
            UpToDate(cells, c)

(***************************************************************************)
(* C2.  A successful Set replies with the evaluated value, and a Get of    *)
(* the same cell issued right after it on the same connection, with no     *)
(* other connection active, returns that same value, whatever the          *)
(* expression.                                                             *)
(***************************************************************************)
GetAfterSet(h) ==
    /\ pc[h] = "write"
    /\ cmd[h].kind = "get"
    /\ last[h].cmd.kind = "set"
    /\ last[h].cmd.id = cmd[h].id

C2_SetThenGet ==
    /\ SetReplied(1) => reply[1].value = cell_value[1]
    /\ (GetAfterSet(1) /\ last[1].reply.kind = "Value") =>
           reply[1].value = last[1].reply.value

(***************************************************************************)
(* C3.  When the evaluation of the root expression of a Set fails, the     *)
(* step that handles it replies with an error and changes nothing else:    *)
(* no cell, no dependency bucket, and no propagation state (the handler    *)
(* goes straight to writing the reply, with its queue, visited set and     *)
(* re-evaluation counts untouched).                                        *)
(***************************************************************************)
RootFails(h) ==
    /\ pc[h] = "set"
    /\ holder = NoHolder
    /\ ~poisoned
    /\ ~EvalIn(cmd[h].expr, cells).panic
    /\ ~EvalIn(cmd[h].expr, cells).ok

C3_RootFailureChangesNothing ==
    [][\A h \in Conns :
        (RootFails(h) /\ pc'[h] # pc[h]) =>
            /\ reply'[h] = ReplyError("could not evaluate expression")
            /\ nreplied'[h] = nreplied[h] + 1
            /\ pc'[h] = "write"
            /\ cells' = cells
            /\ dependencies' = dependencies
            /\ queue'[h] = queue[h]
            /\ visited'[h] = visited[h]
            /\ evals' = evals]_vars

\* A failed root Set has been answered and its target was stored before.
C3_Witness ==
    /\ pc[1] = "write"
    /\ cmd[1].kind = "set"
    /\ reply[1] = ReplyError("could not evaluate expression")
    /\ cell_id_to_string(cmd[1].id) \in DOMAIN cells
    /\ cells[cell_id_to_string(cmd[1].id)].expression # cmd[1].expr

(***************************************************************************)
(* C4.  When cell C holds an error value and Set A C is issued (the        *)
(* expression is just C), a following Get A returns an error value.  The   *)
(* Set of the case is the one that was answered with an error while C      *)
(* holds an error value: that Set changed nothing, so C held the error     *)
(* value when it was issued.                                               *)
(***************************************************************************)
C4_ErrorIsolation ==
    ( /\ GetAfterSet(1)
      /\ last[1].cmd.expr.op = "ref"
      /\ last[1].reply.kind = "Error"
      /\ CellValueOf(cells, last[1].cmd.expr.x).tag = "Error" ) =>
        reply[1].value.tag = "Error"

(***************************************************************************)
(* C5.  No command is fatal: no handler panics, the mutex is never         *)
(* poisoned, the server does not panic in join, and a handler that is back *)
(* at reading (or has closed) has produced one reply per command read.     *)
(***************************************************************************)
C5_NoCommandFatal ==
    /\ ~poisoned
    /\ server # "panicked"
    /\ \A h \in Conns :
        /\ pc[h] # "panicked"
        /\ pc[h] \in {"read", "closed", "write"} => nreplied[h] = nread[h]

(***************************************************************************)
(* C6.  As stated: once A has been re-Set to an expression that no longer  *)
(* mentions T (the pair <<A, T>> is in former), a Set on T never           *)
(* re-evaluates A.                                                         *)
(***************************************************************************)
SetOn(h, name) ==
    cmd[h].kind = "set" /\ cell_id_to_string(cmd[h].id) = name

C6_RebindNeverReevaluated ==
    \A p \in former : SetOn(1, p[2]) => evals[1][p[1]] = 0

(***************************************************************************)
(* C6, amended.  Once A has been re-Set to an expression that no longer    *)
(* mentions T, a Set on T re-evaluates A only if A still depends on T      *)
(* through a chain of other cells; otherwise A is not re-evaluated and     *)
(* keeps the value of its latest Set.                                      *)
(***************************************************************************)
C6_RebindOnlyStillDependent ==
    \A p \in former :
        (SetOn(1, p[2]) /\ evals[1][p[1]] > 0) =>
            p[1] \in Downstream(cells, p[2])

\* A Set on T has been answered without re-evaluating a cell that used to
\* mention T, while a cell that still mentions T was re-evaluated.
C6_Witness ==
    /\ SetReplied(1)
    /\ \E p \in former :
        /\ SetOn(1, p[2])
        /\ p[1] # p[2]
        /\ p[1] \in DOMAIN cells
        /\ evals[1][p[1]] = 0
    /\ \E c \in CellNames : evals[1][c] > 0

(***************************************************************************)
(* C7.  Whenever no handler holds the mutex, c is in the bucket of token t *)
(* if and only if c is a stored cell whose stored expression mentions t.   *)
(***************************************************************************)
Tokens ==
    DOMAIN dependencies \cup UNION {Mentioned(cells, c) : c \in DOMAIN cells}

BucketMembers ==
    UNION {SeqToSet(dependencies[t]) : t \in DOMAIN dependencies}

C7_GraphMatchesStore ==
    holder = NoHolder =>
        \A t \in Tokens : \A c \in DOMAIN cells \cup BucketMembers :
            c \in SeqToSet(Bucket(dependencies, t))
                <=> (HasExpression(cells, c) /\ t \in Mentioned(cells, c))

\* The mutex is free, one cell has stopped mentioning a token that another
\* connection's Set is about to propagate from.
C7_Witness ==
    /\ holder = NoHolder
    /\ <<"B1", "A1">> \in former
    /\ "A1" \in DOMAIN dependencies
    /\ Bucket(dependencies, "A1") = <<>>
    /\ \E h \in Conns : pc[h] = "lock" /\ cur[h] = "A1"

(***************************************************************************)
(* C9.  A Get on a cell that is not stored replies "no value" and changes  *)
(* neither the cells nor the dependency buckets.                           *)
(***************************************************************************)
GetOfAbsent(h) ==
    /\ pc[h] = "get"
    /\ ~poisoned
    /\ cell_id_to_string(cmd[h].id) \notin DOMAIN cells

C9_GetOfAbsentCell ==
    [][\A h \in Conns :
        (GetOfAbsent(h) /\ pc'[h] # pc[h]) =>
            /\ reply'[h] = ReplyValue(cell_id_to_string(cmd[h].id), NoneVal)
            /\ pc'[h] = "write"
            /\ cells' = cells
            /\ dependencies' = dependencies]_vars

\* A Get has been answered "no value" and the cell is still absent, while
\* other cells are stored.
C9_Witness ==
    \E h \in Conns :
        /\ pc[h] = "write"
        /\ cmd[h].kind = "get"
        /\ reply[h] = ReplyValue(cell_id_to_string(cmd[h].id), NoneVal)
        /\ cell_id_to_string(cmd[h].id) \notin DOMAIN cells
        /\ cell_id_to_string(cmd[h].id) \notin DOMAIN dependencies
        /\ cells # <<>>

(***************************************************************************)
(* C10.  As stated: the same successful Set issued twice in a row on one   *)
(* connection gets the same reply value both times and leaves the same     *)
(* stored value.                                                           *)
(***************************************************************************)
SetTwice(h) ==
    /\ SetReplied(h)
    /\ last[h].cmd = cmd[h]
    /\ last[h].reply.kind = "Value"

SameBothTimes(h) ==
    /\ reply[h].value = last[h].reply.value
    /\ CellValueOf(cells, cell_id_to_string(cmd[h].id)) = last[h].stored

C10_Idempotence == SetTwice(1) => SameBothTimes(1)

(***************************************************************************)
(* C10, amended.  The same successful Set issued twice in a row gets the   *)
(* same reply value and leaves the same stored value, provided the         *)
(* expression reads neither the cell being set nor a cell that depends on  *)
(* it through a chain of mentions (directly or inside a range).            *)
(***************************************************************************)
\* The cells an expression reads: its cell tokens and the cells of its ranges.
ReadCells(e) ==
    UNION { IF t \in CellNames THEN {t} ELSE SeqToSet(parse_range(t).cells) :
            t \in VarSet(e) }

ReadsOwnEffect(h) ==
    ReadCells(cmd[h].expr)
        \cap ({cell_id_to_string(cmd[h].id)}
              \cup Downstream(cells, cell_id_to_string(cmd[h].id))) # {}

C10_IdempotenceUnlessSelfDependent ==
    (SetTwice(1) /\ ~ReadsOwnEffect(1)) => SameBothTimes(1)

\* The same Set of an expression that reads another cell was answered twice.
C10_Witness ==
    /\ SetTwice(1)
    /\ ~ReadsOwnEffect(1)
    /\ ReadCells(cmd[1].expr) \cap DOMAIN cells # {}
    /\ Downstream(cells, cell_id_to_string(cmd[1].id)) # {}

(***************************************************************************)
(* C8.  As stated, for connections working on disjoint cells: a cell holds *)
(* the value of the latest successful Set its own connection made to it,   *)
(* which is what a Get returns: the stored cell changes only in the step   *)
(* of a Set on that very cell by the connection that owns it.              *)
(***************************************************************************)
StoredCell(cs, c) ==
    IF c \in DOMAIN cs THEN cs[c] ELSE TimedCellValue(NoneVal, NoExpr)

RootWrite(h, c) == pc[h] = "set" /\ pc'[h] = "rebind" /\ SetOn(h, c)

OwnPropagation(h, c) ==
    pc[h] = "update" /\ pending'[h] = Tail(pending[h]) /\ Head(pending[h]) = c

GetReplied(h) == pc[h] = "write" /\ cmd[h].kind = "get"

C8_GetSeesOwnWrites ==
    \A h \in Conns :
        /\ \A c \in CellNames : evals[h][c] > 0 => c \in Own(h)
        /\ GetReplied(h) =>
               reply[h] = ReplyValue(cell_id_to_string(cmd[h].id),
                              CellValueOf(cells, cell_id_to_string(cmd[h].id)))

ReadsBadCommand(h) ==
    pc[h] = "read" /\ nread'[h] # nread[h] /\ cmd'[h].kind = "bad"

C11_BadCommandChangesNothing ==
    [][\A h \in Conns :
        ReadsBadCommand(h) =>
            /\ reply'[h].kind = "Error"
            /\ nreplied'[h] = nreplied[h] + 1
            /\ pc'[h] = "write"
            /\ cells' = cells
            /\ dependencies' = dependencies
            /\ holder' = holder
            /\ poisoned' = poisoned]_vars

\* A malformed command has been answered while the mutex is poisoned and
\* cells are stored.
C11_Witness ==
    \E h \in Conns :
        /\ pc[h] = "write"
        /\ cmd[h].kind = "bad"
        /\ reply[h].kind = "Error"
        /\ nreplied[h] = nread[h]
        /\ poisoned
        /\ cells # <<>>

(***************************************************************************)
(* C12.  In the propagation run of a Set on R (acyclic graph, one          *)
(* connection), every cell that depends transitively on R has been         *)
(* re-evaluated exactly once when the Set replies.                         *)
(***************************************************************************)
C12_ReevaluatedExactlyOnce ==
    (SetReplied(1) /\ Acyclic(cells)) =>
        \A c \in Downstream(cells, cell_id_to_string(cmd[1].id)) :
            evals[1][c] = 1

(***************************************************************************)
(* C13.  In propagation, the step that re-evaluates a dependent whose      *)
(* evaluation fails writes an error value to it, keeps its expression, and *)
(* appends it to the queue, as for a dependent whose evaluation succeeds.  *)
(***************************************************************************)
DependentFails(h) ==
    /\ pc[h] = "update"
    /\ holder = h
    /\ HasExpression(cells, Head(pending[h]))
    /\ ~EvalIn(cells[Head(pending[h])].expression, cells).panic
    /\ ~EvalIn(cells[Head(pending[h])].expression, cells).ok

C13_FailedDependentEnqueued ==
    [][\A h \in Conns :
        (DependentFails(h) /\ pending'[h] # pending[h]) =>
            /\ cells'[Head(pending[h])].value.tag = "Error"
            /\ cells'[Head(pending[h])].expression
                   = cells[Head(pending[h])].expression
            /\ queue'[h] = Append(queue[h], Head(pending[h]))]_vars

(***************************************************************************)
(* C14.  As stated: when the stored expressions form a circular dependency *)
(* through the cell being Set, the propagation never ends and the Set      *)
(* never replies: no state has the reply of such a Set produced.           *)
(***************************************************************************)
OnCycle(h) ==
    cmd[h].kind = "set"
    /\ cell_id_to_string(cmd[h].id)
           \in Downstream(cells, cell_id_to_string(cmd[h].id))

Propagating(h) == pc[h] \in {"trigger", "lock", "update"}

C15_PropagationEndsWithReply ==
    [][\A h \in Conns :
        /\ (pc[h] = "trigger" /\ pc'[h] = "lock") => cur'[h] \notin visited[h]
        /\ Propagating(h) =>
               \/ pc'[h] \in {"trigger", "lock", "update"}
               \/ pc'[h] = "write" /\ reply'[h].kind = "Value"]_vars

(***************************************************************************)
(* C16.  When the stored expression of D mentions a range token whose      *)
(* rectangle contains C, a successful Set on C has re-evaluated D when it  *)
(* replies, and D holds the value of its expression against the store.     *)
(***************************************************************************)
RangeReaders(cs, c) ==
    {d \in DOMAIN cs \ {c} :
        \E t \in Mentioned(cs, d) \ CellNames :
            c \in SeqToSet(parse_range(t).cells)}

C16_RangeDependentReevaluated ==
    SetReplied(1) =>
        \A d \in RangeReaders(cells, cell_id_to_string(cmd[1].id)) :
            evals[1][d] > 0 /\ UpToDate(cells, d)

(***************************************************************************)
(* C17.  The critical sections are exclusive.  A handler is between the    *)
(* evaluation of a Set and the rebinding of its edges, or inside one       *)
(* propagation step, exactly when it holds the mutex; while a handler      *)
(* holds the mutex no other handler takes a step that reads or writes the  *)
(* cells or the buckets; and the cells and buckets change only in steps of *)
(* the handler that holds (or takes) the mutex.  Between two propagation   *)
(* steps the mutex is free and other handlers' commands may run.           *)
(***************************************************************************)
InCriticalSection(h) == pc[h] \in {"rebind", "update"}

AccessesStore(h) == pc[h] \in {"get", "set", "rebind", "lock", "update"}

C17_HolderIsInside ==
    \A h \in Conns : InCriticalSection(h) <=> holder = h

C17_CriticalSectionsExclusive ==
    /\ []C17_HolderIsInside
    /\ [][\A h \in Conns :
            /\ (holder \notin {NoHolder, h} /\ AccessesStore(h)) =>
                   /\ pc'[h] = pc[h]
                   /\ pending'[h] = pending[h]
                   /\ reply'[h] = reply[h]
            /\ (pc'[h] # pc[h] /\ ~AccessesStore(h)) =>
                   cells' = cells /\ dependencies' = dependencies]_vars

\* Connection 1 is between two steps of a cascade (it has re-evaluated B1
\* and not yet replied) while connection 2 is inside the critical section
\* of a Set.
C17_Witness ==
    /\ pc[1] \in {"trigger", "lock"}
    /\ evals[1]["B1"] > 0
    /\ pc[2] = "rebind"
    /\ holder = 2

(***************************************************************************)
(* C18.  Two connections set A1 and B1, which share the direct dependent   *)
(* A2 = A1 + B1.  Under every interleaving, whenever no Set is in flight,  *)
(* A2 holds its expression evaluated against the stored A1 and B1, and its *)
(* expression is the one it was Set to.                                    *)
(***************************************************************************)
SetInFlight(h) == pc[h] \in {"set", "rebind", "trigger", "lock", "update"}

C18_SharedDependentConsistent ==
    ((\A h \in Conns : ~SetInFlight(h)) /\ "A2" \in DOMAIN cells) =>
        /\ UpToDate(cells, "A2")
        /\ cells["A2"].expression = Add("A1", "B1")

\* Both Sets have replied, each after re-evaluating A2 in its own run.
C18_Witness ==
    /\ SetReplied(1) /\ SetOn(1, "A1")
    /\ SetReplied(2) /\ SetOn(2, "B1")
    /\ evals[1]["A2"] = 1
    /\ evals[2]["A2"] = 1
    /\ cells["A2"].value = IntVal(8)

(***************************************************************************)
(* C19.  Range resolution shape: a range token whose two halves are cell   *)
(* names and that is not a stored cell name resolves, without failing, to  *)
(* a one-dimensional sequence when start and end share a row or a column   *)
(* (one element when start = end), listing the cells from start to end in  *)
(* order, and otherwise to a row-major grid over the rectangle from start  *)
(* to end; an absent cell contributes the empty value.                     *)
(***************************************************************************)
Distance(a, b) == IF a <= b THEN b - a ELSE a - b

Toward(a, b, k) == IF a <= b THEN a + k ELSE a - k

\* The cells from start to end along their common row or column.
LineValues(cs, s, e) ==
    [i \in 1..(Distance(s.col, e.col) + Distance(s.row, e.row) + 1) |->
        CellValueOf(cs, cell_id_to_string(
            [col |-> IF s.col = e.col THEN s.col ELSE Toward(s.col, e.col, i - 1),
             row |-> IF s.row = e.row THEN s.row ELSE Toward(s.row, e.row, i - 1)]))]

\* The rectangle from start to end, one sequence per row.
GridValues(cs, s, e) ==
    [r \in 1..(Distance(s.row, e.row) + 1) |->
        [c \in 1..(Distance(s.col, e.col) + 1) |->
            CellValueOf(cs, cell_id_to_string(
                [col |-> Toward(s.col, e.col, c - 1),
                 row |-> Toward(s.row, e.row, r - 1)]))]]

RangeShape(cs, s, e) ==
    IF s.row = e.row \/ s.col = e.col
    THEN Resolved(ArgVector(LineValues(cs, s, e)))
    ELSE Resolved(ArgMatrix(GridValues(cs, s, e)))

C19_RangeResolutionShape ==
    \A s \in CellIds, e \in CellIds :
        RangeToken(cell_id_to_string(s), cell_id_to_string(e)) \notin DOMAIN cells
            => resolve_variable(RangeToken(cell_id_to_string(s),
                                           cell_id_to_string(e)), cells)
                   = RangeShape(cells, s, e)

(***************************************************************************)
(* C20.  Shutdown ordering: once the transport has reported that there are *)
(* no more connections, the server ends only after every spawned handler   *)
(* has left its loop; and a handler that is running a Set (its propagation *)
(* included) is never closed by its client disconnecting.                  *)
(***************************************************************************)
ServerEnded == server \in {"returned", "panicked"}

HandlerFinished(h) == pc[h] \in {"unspawned", "closed", "panicked"}

C20_ShutdownWaitsForHandlers ==
    /\ [](ServerEnded => \A h \in Conns : HandlerFinished(h))
    /\ [][\A h \in Conns : SetInFlight(h) => pc'[h] # "closed"]_vars

====
